---- MODULE Spec2Model ----
(***************************************************************************)
(* Year-by-year retirement portfolio simulation of src/simulate.py:        *)
(* progressive income tax, inflation indexing, pre-retirement cash flow,   *)
(* post-retirement percentage withdrawal with average-cost capital gains   *)
(* tax, and the depletion / financial-independence milestones.             *)
(*                                                                         *)
(* Amounts are KRW.  Rates entered on the 0.1 % sliders are kept as        *)
(* integers per mille (6.0 % = 60).  Python's round() is round-half-to-    *)
(* even; products are taken exactly.  cost_basis becomes a non-integer in  *)
(* the source (a float), here an exact fraction [n, d] in lowest terms.    *)
(***************************************************************************)
EXTENDS Integers, Sequences, FiniteSets, TLC

VARIABLES
    \* sidebar inputs (fixed during a run)
    current_age, death_age, current_savings, annual_income_input,
    income_end_age, other_income_input, other_income_end_age,
    annual_expenses_input, expected_return, inflation_rate,
    capital_gains_tax_rate, withdrawal_rate,
    \* loop state
    idx, annual_income, other_income, annual_expenses,
    portfolio, cost_basis, depletion_age, fi_age,
    \* tracking lists
    portfolio_values, withdrawals, taxes_paid, expenses_history,
    income_values, other_income_values, income_taxes, net_incomes,
    investment_growths

inputs == <<current_age, death_age, current_savings, annual_income_input,
            income_end_age, other_income_input, other_income_end_age,
            annual_expenses_input, expected_return, inflation_rate,
            capital_gains_tax_rate, withdrawal_rate>>

vars == <<inputs, idx, annual_income, other_income, annual_expenses,
          portfolio, cost_basis, depletion_age, fi_age,
          portfolio_values, withdrawals, taxes_paid, expenses_history,
          income_values, other_income_values, income_taxes, net_incomes,
          investment_growths>>

\* Python's None for the two milestone ages (every age is at least 18)
None == -1

\* Longest horizon (death_age - current_age) of the enumerated inputs
MaxYears == 3

----------------------------------------------------------------------------
(* Arithmetic *)

Max(a, b) == IF a >= b THEN a ELSE b

Abs(a) == IF a < 0 THEN -a ELSE a

RECURSIVE Gcd(_, _)
Gcd(a, b) == IF b = 0 THEN Abs(a) ELSE Gcd(b, a % Abs(b))

\* round(whole + n/d) for 0 <= n, 0 < d: nearest integer, ties to even
RoundParts(whole, n, d) ==
    LET base == whole + (n \div d)
        rem  == n % d
    IN  IF 2 * rem > d THEN base + 1
        ELSE IF 2 * rem < d THEN base
        ELSE IF base % 2 = 0 THEN base ELSE base + 1

\* round(a * k / d), the product split so that it stays in range
MulDivRound(a, k, d) == RoundParts((a \div d) * k, (a % d) * k, d)

\* exact fractions
Rat(n, d) ==
    LET g == Gcd(n, d)
        s == IF d < 0 THEN -1 ELSE 1
    IN  [n |-> s * (n \div g), d |-> s * (d \div g)]

RatInt(i) == [n |-> i, d |-> 1]

RatSub(a, b) ==
    LET g == Gcd(a.d, b.d)
    IN  Rat(a.n * (b.d \div g) - b.n * (a.d \div g), (a.d \div g) * b.d)

RatMul(a, b) ==
    LET g1 == Gcd(a.n, b.d)
        g2 == Gcd(b.n, a.d)
    IN  IF a.n = 0 \/ b.n = 0 THEN RatInt(0)
        ELSE Rat((a.n \div g1) * (b.n \div g2), (a.d \div g2) * (b.d \div g1))

\* a <= i for a fraction a and an integer i
RatLeqInt(a, i) ==
    \/ a.n \div a.d < i
    \/ a.n \div a.d = i /\ a.n % a.d = 0

\* a >= i for a fraction a and an integer i
RatGeqInt(a, i) == a.n \div a.d >= i

\* max(0, a - i)
RatExcess(a, i) == IF RatLeqInt(a, i) THEN RatInt(0) ELSE RatSub(a, RatInt(i))

RatMax0(a) == IF a.n < 0 THEN RatInt(0) ELSE a

\* round(a) for a fraction a
RatRound(a) == RoundParts(a.n \div a.d, a.n % a.d, a.d)

----------------------------------------------------------------------------
(* calculate_income_tax *)

\* variant: the deduction of the second bracket mistyped (1,800,000)
tax_brackets_mistyped ==
    << <<12000000, 6, 0>>,
       <<46000000, 15, 1800000>>,
       <<88000000, 24, 5220000>>,
       <<150000000, 35, 14900000>>,
       <<300000000, 38, 19400000>>,
       <<500000000, 40, 25400000>>,
       <<1000000000, 42, 35400000>>,
       <<-1, 45, 65400000>> >>

\* (limit, rate in percent, deduction); the last limit is float("inf")
tax_brackets ==
    << <<12000000, 6, 0>>,
       <<46000000, 15, 1080000>>,
       <<88000000, 24, 5220000>>,
       <<150000000, 35, 14900000>>,
       <<300000000, 38, 19400000>>,
       <<500000000, 40, 25400000>>,
       <<1000000000, 42, 35400000>>,
       <<-1, 45, 65400000>> >>

\* max(0, round(income * rate - deduction)) in one bracket
BracketTax(income, rate, deduction) ==
    Max(0, RoundParts((income \div 100) * rate - deduction,
                      (income % 100) * rate, 100))

RECURSIVE TaxFrom(_, _)
TaxFrom(income, k) ==
    IF k > Len(tax_brackets) THEN 0
    ELSE IF tax_brackets[k][1] = -1 \/ income <= tax_brackets[k][1]
         THEN BracketTax(income, tax_brackets[k][2], tax_brackets[k][3])
         ELSE TaxFrom(income, k + 1)

calculate_income_tax(income) == TaxFrom(income, 1)

----------------------------------------------------------------------------
(* One iteration of the simulation loop *)

age == current_age + idx

\* the loop runs over years = arange(current_age, death_age + 1)
InLoop == idx <= death_age - current_age

withdrawal_rate_default == 40

capital_gains_exemption == 2500000

financial_independence_target == annual_expenses_input * 25

\* round(x * (1 + inflation_rate))
Inflate(x) == MulDivRound(x, 1000 + inflation_rate, 1000)

\* A) indexing of the three streams, skipped in the first year
IndexedIncome ==
    IF idx > 0 /\ age < income_end_age THEN Inflate(annual_income)
    ELSE annual_income

IndexedOtherIncome ==
    IF idx > 0 /\ age < other_income_end_age THEN Inflate(other_income)
    ELSE other_income

IndexedExpenses ==
    IF idx > 0 /\ age < income_end_age THEN Inflate(annual_expenses)
    ELSE annual_expenses

\* B) income of the year
salary_income == IF age < income_end_age THEN IndexedIncome ELSE 0

extra_income == IF age < other_income_end_age THEN IndexedOtherIncome ELSE 0

total_income == salary_income + extra_income

\* C) income tax
income_tax ==
    IF total_income > 0 THEN calculate_income_tax(total_income) ELSE 0

net_income == total_income - income_tax

\* D) growth, computed on the balance before any cash flow
investment_growth == MulDivRound(portfolio, expected_return, 1000)

GrownPortfolio == portfolio + investment_growth

\* pre-retirement branch
cash_flow == net_income - IndexedExpenses

\* variant: a shortfall reduces the cost basis as well
CostBasisFollowsCashFlow(cb, cf) == RatSub(cb, RatInt(-cf))

CostBasisAfterCashFlow(cb, cf) ==
    IF cf >= 0 THEN RatSub(cb, RatInt(-cf)) ELSE cb

PortfolioAfterCashFlow(p, cf) == p + cf

\* post-retirement branch: round(portfolio * withdrawal_rate), clamped
AnnualWithdrawal(p) ==
    LET w == MulDivRound(p, withdrawal_rate, 1000)
    IN  IF w > p THEN p ELSE w

\* variant: the indexed expenses are withdrawn instead of a percentage
PortfolioAfterExpenses(p) ==
    IF annual_expenses > p THEN 0 ELSE p - annual_expenses

PortfolioAfterWithdrawal(p) ==
    LET w == MulDivRound(p, withdrawal_rate, 1000)
    IN  IF w > p THEN 0 ELSE p - w

\* total_unrealized_gains for portfolio_before_sell pb and cost basis cb
UnrealizedGains(pb, cb) == RatSub(RatInt(pb), cb)

\* capital_gains = total_unrealized_gains * sell_ratio (gains > 0 only)
CapitalGains(pb, w, cb) == RatMul(UnrealizedGains(pb, cb), Rat(w, pb))

\* variant: the whole withdrawal is taxed as gain, whatever the cost basis
CapitalGainsTaxOnWithdrawal(pb, w, cb) ==
    RatRound(RatMul(RatExcess(RatInt(w), capital_gains_exemption),
                    Rat(capital_gains_tax_rate, 1000)))

CapitalGainsTax(pb, w, cb) ==
    IF UnrealizedGains(pb, cb).n <= 0 THEN 0
    ELSE LET taxable_gains ==
                 RatExcess(CapitalGains(pb, w, cb), capital_gains_exemption)
         IN  RatRound(RatMul(taxable_gains,
                             Rat(capital_gains_tax_rate, 1000)))

CostBasisAfterSell(pb, w, cb) ==
    IF UnrealizedGains(pb, cb).n <= 0
    THEN RatMax0(RatSub(cb, RatInt(w)))
    ELSE LET cost_basis_sold ==
                 RatMax0(RatSub(RatInt(w), CapitalGains(pb, w, cb)))
         IN  RatMax0(RatSub(cb, cost_basis_sold))

\* E) depletion check
DepletionAgeAfter(p, dep, a) == IF p < 0 /\ dep = None THEN a ELSE dep

PortfolioAfterDepletionCheck(p, dep) ==
    IF p < 0 /\ dep = None THEN 0 ELSE p

\* F) financial independence check
\* variant: fi_age is reassigned in every year that meets the target
FiAgeReassigned(p, fi, a) ==
    IF p >= annual_expenses_input * 25 THEN a ELSE fi

\* variant: the target has to be exceeded
FiAgeStrict(p, fi, a) ==
    IF fi = None /\ p > annual_expenses_input * 25 THEN a ELSE fi

FiAgeAfter(p, fi, a) ==
    IF fi = None /\ p >= financial_independence_target THEN a ELSE fi

\* the part of an iteration common to both branches
\* (p: balance after the branch, w: withdrawal, t: capital gains tax)
Record(p, w, t) ==
    LET final == PortfolioAfterDepletionCheck(p, depletion_age)
    IN  /\ annual_income' = IndexedIncome
        /\ other_income' = IndexedOtherIncome
        /\ annual_expenses' = IndexedExpenses
        /\ depletion_age' = DepletionAgeAfter(p, depletion_age, age)
        /\ portfolio' = final
        /\ fi_age' = FiAgeAfter(final, fi_age, age)
        /\ portfolio_values' = Append(portfolio_values, final)
        /\ withdrawals' = Append(withdrawals, w)
        /\ taxes_paid' = Append(taxes_paid, t)
        /\ expenses_history' =
               Append(expenses_history,
                      IF age < income_end_age THEN IndexedExpenses ELSE 0)
        /\ income_values' = Append(income_values, salary_income)
        /\ other_income_values' = Append(other_income_values, extra_income)
        /\ income_taxes' = Append(income_taxes, income_tax)
        /\ net_incomes' = Append(net_incomes, net_income)
        /\ investment_growths' = Append(investment_growths, investment_growth)
        /\ idx' = idx + 1
        /\ UNCHANGED inputs

PreRetirementYear ==
    /\ InLoop
    /\ age < income_end_age
    /\ cost_basis' = CostBasisAfterCashFlow(cost_basis, cash_flow)
    /\ Record(PortfolioAfterCashFlow(GrownPortfolio, cash_flow), 0, 0)

PostRetirementYear ==
    /\ InLoop
    /\ age >= income_end_age
    /\ LET w  == AnnualWithdrawal(GrownPortfolio)
           p  == PortfolioAfterWithdrawal(GrownPortfolio)
           pb == p + w
       IN  /\ cost_basis' = CostBasisAfterSell(pb, w, cost_basis)
           /\ Record(p, w, CapitalGainsTax(pb, w, cost_basis))

Next == PreRetirementYear \/ PostRetirementYear

----------------------------------------------------------------------------
(* Initial states *)

\* state at the top of the loop for the inputs already chosen
LoopInit ==
    /\ idx = 0
    /\ annual_income = annual_income_input
    /\ other_income = other_income_input
    /\ annual_expenses = annual_expenses_input
    /\ portfolio = current_savings
    /\ cost_basis = RatInt(current_savings)
    /\ depletion_age = None
    /\ fi_age = None
    /\ portfolio_values = << >>
    /\ withdrawals = << >>
    /\ taxes_paid = << >>
    /\ expenses_history = << >>
    /\ income_values = << >>
    /\ other_income_values = << >>
    /\ income_taxes = << >>
    /\ net_incomes = << >>
    /\ investment_growths = << >>

\* small amounts, every combination
SmallInputs ==
    /\ current_age = 30
    /\ death_age \in 30 .. 30 + MaxYears
    /\ income_end_age \in current_age .. death_age
    /\ other_income_end_age \in current_age .. death_age
    /\ current_savings \in {0, 50}
    /\ annual_income_input \in {0, 30}
    /\ other_income_input \in {0, 10}
    /\ annual_expenses_input \in {0, 2, 20}
    /\ expected_return \in {0, 100}
    /\ inflation_rate \in {0, 100}
    /\ capital_gains_tax_rate = 220
    /\ withdrawal_rate = withdrawal_rate_default

\* amounts large enough for a taxable realized gain
LargeInputs ==
    /\ current_age = 30
    /\ death_age = 32
    /\ income_end_age \in {30, 31}
    /\ other_income_end_age = 30
    /\ current_savings = 1000000000
    /\ annual_income_input = 0
    /\ other_income_input = 0
    /\ annual_expenses_input \in {0, 40000000}
    /\ expected_return \in {0, 100}
    /\ inflation_rate = 0
    /\ capital_gains_tax_rate = 220
    /\ withdrawal_rate = withdrawal_rate_default

Init == (SmallInputs \/ LargeInputs) /\ LoopInit

Spec == Init /\ [][Next]_vars

\* Scenario A inputs with a 0 % return, at the fixed 4 % withdrawal rate of
\* the source and at the 10 % of Scenario B
ScenarioBInputs ==
    /\ current_age = 30
    /\ death_age = 90
    /\ income_end_age = 45
    /\ other_income_end_age = 70
    /\ current_savings = 500000000
    /\ annual_income_input = 100000000
    /\ other_income_input = 0
    /\ annual_expenses_input = 70000000
    /\ expected_return = 0
    /\ inflation_rate = 20
    /\ capital_gains_tax_rate = 220
    /\ withdrawal_rate \in {withdrawal_rate_default, 100}

InitB == ScenarioBInputs /\ LoopInit

SpecB == InitB /\ [][Next]_vars

\* incomes around every bracket limit, and the smallest incomes
TaxProbeWidth == 3

TaxProbeIncomes ==
    (0 .. 2 * TaxProbeWidth) \cup {25, 50, 75}
    \cup UNION {(tax_brackets[k][1] - TaxProbeWidth - 1) ..
                (tax_brackets[k][1] + TaxProbeWidth) :
                k \in 1 .. Len(tax_brackets) - 1}

\* the salary is taxed with one unit of other income in the first year and
\* alone in the second: the run computes the tax at income + 1 and at income
TaxInputs ==
    /\ current_age = 30
    /\ death_age = 32
    /\ income_end_age = 32
    /\ other_income_end_age = 31
    /\ current_savings = 0
    /\ annual_income_input \in TaxProbeIncomes
    /\ other_income_input = 1
    /\ annual_expenses_input = 0
    /\ expected_return = 0
    /\ inflation_rate = 0
    /\ capital_gains_tax_rate = 220
    /\ withdrawal_rate = withdrawal_rate_default

InitTax == TaxInputs /\ LoopInit

SpecTax == InitTax /\ [][Next]_vars

----------------------------------------------------------------------------
(* Properties *)

Years == 1 .. Len(portfolio_values)

AgeOf(i) == current_age + i - 1

Last(s) == s[Len(s)]

\* the year just recorded was a pre- / post-retirement year
LastWasPre == idx > 0 /\ AgeOf(idx) < income_end_age

LastWasPost == idx > 0 /\ AgeOf(idx) >= income_end_age

\* C1: the ending balance recorded for every simulated age is >= 0, also in
\* years after depletion_age has been set.
C1_BalanceNonNegative == \A i \in Years : portfolio_values[i] >= 0

\* C2: in a post-retirement year that ends with balance 0 while depletion_age
\* is unset, depletion_age is set to the current age.
C2_ZeroBalanceSetsDepletion ==
    [][(InLoop /\ age >= income_end_age /\ depletion_age = None
          /\ portfolio' = 0)
       => depletion_age' = age]_vars

C4_WriteOnce ==
    /\ [](idx = 0 => (depletion_age = None /\ fi_age = None))
    /\ [][/\ depletion_age # None => depletion_age' = depletion_age
          /\ fi_age # None => fi_age' = fi_age]_vars

\* fi_age was set in an earlier year and the balance is now below the target
C4_Witness ==
    /\ fi_age # None
    /\ fi_age < AgeOf(idx)
    /\ portfolio < financial_independence_target

\* least age whose recorded ending balance reaches 25 x the input expenses
FirstTargetAge ==
    IF \E i \in Years : portfolio_values[i] >= annual_expenses_input * 25
    THEN AgeOf(CHOOSE i \in Years :
                  /\ portfolio_values[i] >= annual_expenses_input * 25
                  /\ \A j \in 1 .. i - 1 :
                         portfolio_values[j] < annual_expenses_input * 25)
    ELSE None

\* C5: at the end of a run fi_age is the smallest age whose recorded balance
\* is >= 25 x the input annual expenses, and unset when there is none.
C5_FiAgeIsFirstTargetAge == ~InLoop => fi_age = FirstTargetAge

\* a run that reached the target after its first year
C5_Witness ==
    /\ ~InLoop
    /\ fi_age # None
    /\ fi_age > current_age
    /\ annual_expenses_input > 0

\* sum of the non-negative net cash flows of the recorded pre-retirement years
RECURSIVE ContributionsUpTo(_)
ContributionsUpTo(i) ==
    IF i = 0 THEN 0
    ELSE ContributionsUpTo(i - 1)
         + (IF AgeOf(i) < income_end_age
            THEN Max(0, net_incomes[i] - expenses_history[i]) ELSE 0)

\* C6: cost_basis is >= 0 and <= starting savings plus the pre-retirement
\* contributions so far, and only a pre-retirement contribution raises it.
C6_CostBasisBounded ==
    /\ [](/\ cost_basis.n >= 0
          /\ RatLeqInt(cost_basis,
                       current_savings + ContributionsUpTo(Len(net_incomes))))
    /\ [][(InLoop /\ age >= income_end_age)
          => RatSub(cost_basis', cost_basis).n <= 0]_vars

\* C7: in a post-retirement year with unrealized gain <= 0 the recorded
\* capital gains tax is 0, and with unrealized gain exactly 0 cost_basis
\* falls by exactly the withdrawal.
C7_NoGainNoTax ==
    [][(InLoop /\ age >= income_end_age)
       => LET before == portfolio + Last(investment_growths')
          IN  /\ RatGeqInt(cost_basis, before) => Last(taxes_paid') = 0
              /\ cost_basis = RatInt(before)
                 => cost_basis' = RatInt(before - Last(withdrawals'))]_vars

\* a withdrawal was just made from a balance equal to the cost basis
C7_Witness ==
    /\ LastWasPost
    /\ Last(withdrawals) > 0
    /\ portfolio > 0
    /\ cost_basis = RatInt(portfolio)
    /\ Last(taxes_paid) = 0

\* C8: the income tax is >= 0 and non-decreasing in income, also across the
\* bracket limits (compared over the incomes taxed in a run).
C8_TaxNonNegativeMonotone ==
    \A i \in 1 .. Len(income_taxes) :
        /\ income_taxes[i] >= 0
        /\ \A j \in 1 .. Len(income_taxes) :
               income_values[i] + other_income_values[i]
                   <= income_values[j] + other_income_values[j]
               => income_taxes[i] <= income_taxes[j]

\* a run that taxed a bracket limit and the income just above it
C8_Witness ==
    /\ Len(income_taxes) >= 2
    /\ income_values[2] + other_income_values[2] = tax_brackets[2][1]
    /\ income_values[1] + other_income_values[1] = tax_brackets[2][1] + 1
    /\ income_taxes[2] > 0
    /\ income_taxes[1] >= income_taxes[2]

\* C9: a pre-retirement year records withdrawal 0 and capital gains tax 0 and
\* changes cost_basis by exactly max(0, net income - expenses); a surplus is
\* added to the balance too, a shortfall is taken from the balance only.
C9_PreRetirementFrame ==
    [][(InLoop /\ age < income_end_age)
       => LET cf == Last(net_incomes') - Last(expenses_history')
              grown == portfolio + Last(investment_growths')
          IN  /\ Last(withdrawals') = 0
              /\ Last(taxes_paid') = 0
              /\ cost_basis' = RatSub(cost_basis, RatInt(-Max(0, cf)))
              /\ cf >= 0 => portfolio' = grown + cf
              /\ cf < 0 => /\ cost_basis' = cost_basis
                           /\ portfolio' \in {grown + cf, 0}
                           /\ portfolio' <= Max(0, grown + cf)]_vars

\* a shortfall year was just recorded after savings had built a cost basis
C9_Witness ==
    /\ LastWasPre
    /\ Last(net_incomes) < Last(expenses_history)
    /\ cost_basis.n > 0
    /\ portfolio > 0
    /\ RatLeqInt(cost_basis, portfolio) = FALSE

\* C10: a post-retirement year records a withdrawal w with
\* 0 <= w <= post-growth balance and ends with post-growth balance - w.
C10_WithdrawalWithinBalance ==
    [][(InLoop /\ age >= income_end_age)
       => LET w == Last(withdrawals')
              grown == portfolio + Last(investment_growths')
          IN  /\ 0 <= w
              /\ w <= grown
              /\ portfolio' = grown - w]_vars

====
